---- MODULE Spec2Model ----
(***************************************************************************)
(* Sub-tour elimination callback of the branch-and-cut TSP model           *)
(* (src/modelo/elimination.hpp, src/modelo/graph.hpp).                     *)
(*                                                                         *)
(* Real values (double) are fixed-point numbers with denominator Den: the  *)
(* integer h stands for h / Den, so 0.0 is 0, 0.5 is 1 and 1.0 is Den.     *)
(***************************************************************************)
EXTENDS Integers, Sequences, FiniteSets, TLC

\* largest vertex count whose symmetric 0/1 candidates are all enumerated
MaxSymN == 4
\* largest vertex count whose degree-2 candidates (cycle covers) are enumerated
MaxCycN == 6
\* largest dimension of the arbitrary 0/1 matrices given to sub_tours directly
MaxN == 3
\* largest dimension of the arbitrary matrices with entries 0.0, 0.5, 1.0
MaxHalfN == 2
\* calls of next_tour() made after the pass has consumed every vertex
MaxExtraCalls == 2
\* largest number of vertices created while an instance is loaded
MaxLoaded == 6

\* denominator of the fixed-point representation of double
Den == 2

\* std::optional: std::nullopt is the empty sequence, a value v is <<v>>
None == <<>>
Some(v) == <<v>>
ValueOf(opt) == opt[1]
\* an entry of a matrix that has not been written yet (new T[n * n])
Uninit == "uninit"
\* a default-constructed GRBVar (the diagonal of vars, never assigned)
NullVar == "nullvar"

GRB_CB_MIPSOL == "MIPSOL"
GRB_EQUAL == "="
\* the solver events that reach callback()
Wheres == {"MIPSOL", "MIPNODE", "MESSAGE"}

VARIABLES
    count,      \* vertices.size()
    x,          \* the solver's value of each edge variable
    where,      \* GRBCallback::where of the current event
    sols,       \* the matrix get_solutions() returned / sub_tours::solution
    queries,    \* the variables passed to getSolution, in order
    seen,       \* sub_tours::seen
    tours,      \* the walks next_tour() has returned in this pass, in order
    ret,        \* what the last call of next_tour() returned
    calls,      \* number of next_tour() calls of a direct pass
    loop_iters, \* iterations the loop of the last next_tour(node) made
    min_tour,   \* find_sub_tour's min_tour
    lazy,       \* the constraints passed to addLazy (in this invocation; in
                \* the solve loop, since the solve began)
    next_id_count,  \* the static counter of vertex::next_id
    loaded,     \* the vertices created while the instance is loaded
    thrown,     \* the exception program.run() ended with, if any
    exit_status,    \* what main returned, once it has
    pc

\* the state of instance loading
loadVars == <<next_id_count, loaded>>

\* the state of main
mainVars == <<thrown, exit_status>>

vars == <<count, x, where, sols, queries, seen, tours, ret, calls, loop_iters, min_tour, lazy,
          next_id_count, loaded, thrown, exit_status, pc>>

Idx(c) == 0 .. (c - 1)
Edges(c) == {e \in Idx(c) \X Idx(c) : e[1] < e[2]}

(***************************************************************************)
(* graph::add_vars: one variable per unordered pair, stored at both        *)
(* [u][v] and [v][u]; the diagonal keeps the default-constructed GRBVar.   *)
(***************************************************************************)
add_vars(c) ==
    [u \in Idx(c) |-> [v \in Idx(c) |->
        IF u < v THEN <<u, v>> ELSE IF v < u THEN <<v, u>> ELSE NullVar]]

\* graph::add_constraint_deg_2: for each u, the sum of vars[u][v] over the
\* v with u != v equals 2
add_constraint_deg_2(c) ==
    [u \in Idx(c) |->
        [expr |-> [i \in 1 .. (c - 1) |-> add_vars(c)[u][IF i - 1 < u THEN i - 1 ELSE i]],
         sense |-> GRB_EQUAL,
         rhs |-> 2]]

\* GRBCallback::getSolution: the solver's value of a model variable
getSolution(xs, var) == IF var \in DOMAIN xs THEN xs[var] ELSE "GRBException"

\* graph::size, documented as the number of edges
graph_size(c) == (c * (c + 1)) \div 2

(***************************************************************************)
(* sub_tours                                                               *)
(***************************************************************************)
\* a constructor that keeps the markers of the previous pass
sub_tours_stale(c) == seen

\* the constructor: seen(vertices.size(), false)
sub_tours(c) == [i \in Idx(c) |-> FALSE]

\* a scan that keeps the last unmarked vertex instead of the first
RECURSIVE new_node_from_last(_, _, _)
new_node_from_last(sn, c, node) ==
    IF node < c
    THEN LET later == new_node_from_last(sn, c, node + 1)
         IN  IF later # None THEN later
             ELSE IF ~sn[node] THEN Some(node) ELSE None
    ELSE None

RECURSIVE new_node_from(_, _, _)
new_node_from(sn, c, node) ==
    IF node < c
    THEN IF ~sn[node] THEN Some(node) ELSE new_node_from(sn, c, node + 1)
    ELSE None

new_node(sn, c) == new_node_from(sn, c, 0)

\* the threshold test written with >=
at_least_half(val) == val * 2 >= Den

\* solution[v] > 0.5
above_half(val) == val * 2 > Den

\* best_next that forgets the seen markers
RECURSIVE best_next_from_unmarked(_, _, _, _, _)
best_next_from_unmarked(sn, sol, c, u, v) ==
    IF v < c
    THEN IF above_half(sol[u][v]) THEN Some(v)
         ELSE best_next_from_unmarked(sn, sol, c, u, v + 1)
    ELSE None

RECURSIVE best_next_from(_, _, _, _, _)
best_next_from(sn, sol, c, u, v) ==
    IF v < c
    THEN IF above_half(sol[u][v]) /\ ~sn[v] THEN Some(v)
         ELSE best_next_from(sn, sol, c, u, v + 1)
    ELSE None

best_next(sn, sol, c, u) == best_next_from(sn, sol, c, u, 0)

\* a loop that appends the node but never sets seen[node]
RECURSIVE next_tour_loop_nomark(_, _, _, _, _, _, _)
next_tour_loop_nomark(sn, sol, c, node, len, vertices, iters) ==
    IF len > 0
    THEN LET vs1 == Append(vertices, node)
             next == best_next(sn, sol, c, node)
         IN  IF next # None
             THEN next_tour_loop_nomark(sn, sol, c, ValueOf(next), len - 1, vs1, iters + 1)
             ELSE [walk |-> Some(vs1), seen |-> sn, iters |-> iters + 1]
    ELSE [walk |-> Some(vertices), seen |-> sn, iters |-> iters]

\* the loop of next_tour(size_t node); iters counts the iterations made
RECURSIVE next_tour_loop(_, _, _, _, _, _, _)
next_tour_loop(sn, sol, c, node, len, vertices, iters) ==
    IF len > 0
    THEN LET sn1 == [sn EXCEPT ![node] = TRUE]
             vs1 == Append(vertices, node)
             next == best_next(sn1, sol, c, node)
         IN  IF next # None
             THEN next_tour_loop(sn1, sol, c, ValueOf(next), len - 1, vs1, iters + 1)
             ELSE [walk |-> Some(vs1), seen |-> sn1, iters |-> iters + 1]
    ELSE [walk |-> Some(vertices), seen |-> sn, iters |-> iters]

next_tour_node(sn, sol, c, node) == next_tour_loop(sn, sol, c, node, c, <<>>, 0)

\* next_tour(void): the walk and the new seen, or None and seen unchanged
next_tour(sn, sol, c) ==
    LET node == new_node(sn, c)
    IN  IF node # None
        THEN next_tour_node(sn, sol, c, ValueOf(node))
        ELSE [walk |-> None, seen |-> sn, iters |-> 0]

(***************************************************************************)
(* subtour_elim                                                            *)
(***************************************************************************)
all_vertices(c) == [i \in 1 .. c |-> i - 1]

\* the replacement test written with >= and with <
replaces_min_longer(tour, min) == Len(tour) >= Len(min)
replaces_min_strict(tour, min) == Len(tour) < Len(min)

\* the test of find_sub_tour that replaces min_tour
replaces_min(tour, min) == Len(tour) <= Len(min)

\* an inner loop that stores val in sols[u][v] only, over a zeroed buffer
RECURSIVE get_solutions_v_one_sided(_, _, _, _, _)
get_solutions_v_one_sided(xs, st, c, u, v) ==
    IF v < c
    THEN LET var == add_vars(c)[u][v]
             val == getSolution(xs, var)
         IN  get_solutions_v_one_sided(xs,
                 [sols |-> [st.sols EXCEPT ![u][v] = val, ![v][u] = 0],
                  queries |-> Append(st.queries, var)], c, u, v + 1)
    ELSE st

RECURSIVE get_solutions_v(_, _, _, _, _)
get_solutions_v(xs, st, c, u, v) ==
    IF v < c
    THEN LET var == add_vars(c)[u][v]
             val == getSolution(xs, var)
         IN  get_solutions_v(xs,
                 [sols |-> [st.sols EXCEPT ![u][v] = val, ![v][u] = val],
                  queries |-> Append(st.queries, var)], c, u, v + 1)
    ELSE st

RECURSIVE get_solutions_u(_, _, _, _)
get_solutions_u(xs, st, c, u) ==
    IF u < c
    THEN get_solutions_u(xs,
             get_solutions_v(xs, [st EXCEPT !.sols[u][u] = 0], c, u, u + 1), c, u + 1)
    ELSE st

\* xs is the solver's assignment at the time of the call
get_solutions(xs, c) ==
    get_solutions_u(xs,
        [sols |-> [u \in Idx(c) |-> [v \in Idx(c) |-> Uninit]], queries |-> <<>>],
        c, 0)

\* the no-cut test written with >
no_cut_needed_strict(len, c) == len > c

\* the bound of the test that returns without a cut: len >= count()
no_cut_needed(len, c) == len >= c

\* the inner loop started at v = u
expr_first_v_same(u) == u

\* the inner loop of the cut expression starts at v = u + 1
expr_first_v(u) == u + 1

RECURSIVE expr_v(_, _, _, _, _)
expr_v(expr, c, tour, u, v) ==
    IF v < Len(tour)
    THEN expr_v(Append(expr, add_vars(c)[tour[u + 1]][tour[v + 1]]), c, tour, u, v + 1)
    ELSE expr

RECURSIVE expr_u(_, _, _, _)
expr_u(expr, c, tour, u) ==
    IF u < Len(tour)
    THEN expr_u(expr_v(expr, c, tour, u, expr_first_v(u)), c, tour, u + 1)
    ELSE expr

\* GRBLinExpr built from the tour: the sequence of its terms (coefficient 1)
cut_expr(c, tour) == expr_u(<<>>, c, tour, 0)

\* the right-hand side written as the length of the sub-tour
cut_rhs_len(c, tour) == Len(tour)

\* the right-hand side passed to addLazy
cut_rhs(c, tour) == c - 1

\* the constraint passed to addLazy
cut(c, tour) == [expr |-> cut_expr(c, tour), sense |-> GRB_EQUAL, rhs |-> cut_rhs(c, tour)]

(***************************************************************************)
(* The assignments the solver can present.  The degree-2 constraints of    *)
(* graph::add_constraint_deg_2 leave exactly the cycle covers: 0/1         *)
(* assignments in which every vertex has two selected incident edges.      *)
(***************************************************************************)
MinOf(S) == CHOOSE m \in S : \A o \in S : m <= o
MaxOf(S) == CHOOSE m \in S : \A o \in S : o <= m

\* every ordering of the set S, as sequences
RECURSIVE Orderings(_)
Orderings(S) ==
    IF S = {} THEN {<<>>}
    ELSE UNION {{<<s>> \o p : p \in Orderings(S \ {s})} : s \in S}

\* the edge u-v as the variable that add_vars stores for it
EdgeVar(u, v) == IF u < v THEN <<u, v>> ELSE <<v, u>>

\* the edges of the closed walk cyc[1] - cyc[2] - ... - cyc[Len] - cyc[1]
CycleEdges(cyc) ==
    {EdgeVar(cyc[i], cyc[(i % Len(cyc)) + 1]) : i \in 1 .. Len(cyc)}

\* the sets of vertex-disjoint cycles (each of 3 or more vertices) covering V;
\* a cover is the set of the vertex sets and edge sets of its cycles
RECURSIVE Covers(_)
Covers(V) ==
    IF V = {} THEN {{}}
    ELSE LET v == MinOf(V)
         IN  UNION {UNION {{{[verts |-> S \cup {v}, edges |-> CycleEdges(<<v>> \o p)]} \cup rest :
                               rest \in Covers(V \ (S \cup {v}))} :
                           p \in Orderings(S)} :
                    S \in {T \in SUBSET (V \ {v}) : Cardinality(T) >= 2}}

CoverEdges(cover) == UNION {cyc.edges : cyc \in cover}

\* the 0/1 assignment that selects exactly the edges of the set E
Assignment(c, E) == [e \in Edges(c) |-> IF e \in E THEN Den ELSE 0]

CycleCovers == [c \in 3 .. MaxCycN |-> Covers(Idx(c))]

Deg2Candidates == [c \in 3 .. MaxCycN |-> {Assignment(c, CoverEdges(cv)) : cv \in CycleCovers[c]}]

\* the Hamiltonian cycles on c vertices, as 0/1 assignments
HamiltonianCycles ==
    [c \in 3 .. MaxCycN |->
        {Assignment(c, CoverEdges(cv)) : cv \in {k \in CycleCovers[c] : Cardinality(k) = 1}}]

SymCandidates == [c \in 1 .. MaxSymN |-> [Edges(c) -> {0, Den}]]

Counts == (1 .. MaxSymN) \cup (3 .. MaxCycN)

\* per vertex count, the assignments the solver presents at MIPSOL
AllCandidates ==
    [c \in Counts |->
        (IF c \in DOMAIN SymCandidates THEN SymCandidates[c] ELSE {})
        \cup (IF c \in DOMAIN Deg2Candidates THEN Deg2Candidates[c] ELSE {})]

Candidates(c) == AllCandidates[c]

\* the number of edge variables on which two assignments differ
Distance(c, xs, ys) == Cardinality({e \in Edges(c) : xs[e] # ys[e]})

\* under the degree-2 constraints the search moves between cycle covers by
\* exchanging two selected edges for two others (or stays)
Deg2Moves ==
    [c \in 3 .. MaxCycN |->
        [xs \in Deg2Candidates[c] |->
            {ys \in Deg2Candidates[c] : Distance(c, xs, ys) <= 4}]]

\* the assignments the search can reach next from the assignment xs: with
\* every 0/1 assignment allowed it moves one edge variable at a time (or stays)
NextCandidates(c, xs) ==
    IF c \in DOMAIN SymCandidates
    THEN {xs} \cup {[xs EXCEPT ![e] = Den - xs[e]] : e \in Edges(c)}
    ELSE Deg2Moves[c][xs]

(***************************************************************************)
(* The solver loop: the solver reaches an event and invokes callback().    *)
(***************************************************************************)
Init ==
    /\ count \in Counts
    /\ x \in Candidates(count)
    /\ where = "MESSAGE"
    /\ sols = [u \in Idx(count) |-> [v \in Idx(count) |-> Uninit]]
    /\ queries = <<>>
    /\ seen = [i \in Idx(count) |-> FALSE]
    /\ tours = <<>>
    /\ ret = None
    /\ calls = 0
    /\ loop_iters = 0
    /\ next_id_count = 1
    /\ loaded = <<>>
    /\ thrown = None
    /\ exit_status = None
    /\ min_tour = <<>>
    /\ lazy = <<>>
    /\ pc = "idle"

\* a callback() that runs the elimination on every event
is_mipsol_any(w) == TRUE

\* the test of callback(): where == GRB_CB_MIPSOL
is_mipsol(w) == w = GRB_CB_MIPSOL

\* the solver finds a new integer-feasible assignment and fires MIPSOL:
\* callback() enters lazy_constraint_subtour_elimination, which calls
\* get_solutions() and starts find_sub_tour (the sub_tours object is
\* constructed and min_tour starts as all_vertices())
callback_mipsol ==
    /\ pc \in {"idle", "done"}
    /\ x' \in NextCandidates(count, x)
    /\ where' \in {w \in Wheres : is_mipsol(w)}
    /\ lazy' = <<>>
    /\ LET st == get_solutions(x', count)
       IN  /\ sols' = st.sols
           /\ queries' = st.queries
    /\ seen' = sub_tours(count)
    /\ min_tour' = all_vertices(count)
    /\ tours' = <<>>
    /\ ret' = None
    /\ pc' = "find_sub_tour"
    /\ UNCHANGED <<count, calls, loop_iters, loadVars, mainVars>>

\* the solver fires another event: callback() returns at once
callback_other ==
    /\ pc \in {"idle", "done"}
    /\ where' \in {w \in Wheres : ~is_mipsol(w)}
    /\ lazy' = <<>>
    /\ queries' = <<>>
    /\ pc' = "done"
    /\ UNCHANGED <<count, x, sols, seen, tours, ret, calls, loop_iters, min_tour, loadVars, mainVars>>

\* one iteration of the while loop of find_sub_tour
find_sub_tour_loop ==
    /\ pc = "find_sub_tour"
    /\ LET r == next_tour(seen, sols, count)
       IN  /\ seen' = r.seen
           /\ ret' = r.walk
           /\ loop_iters' = r.iters
           /\ IF r.walk # None
              THEN /\ tours' = Append(tours, ValueOf(r.walk))
                   /\ min_tour' = IF replaces_min(ValueOf(r.walk), min_tour)
                                  THEN ValueOf(r.walk) ELSE min_tour
                   /\ pc' = "find_sub_tour"
              ELSE /\ UNCHANGED <<tours, min_tour>>
                   /\ pc' = "emit"
    /\ UNCHANGED <<count, x, where, sols, queries, calls, lazy, loadVars, mainVars>>

\* the rest of lazy_constraint_subtour_elimination, on the tour found
lazy_constraint_subtour_elimination ==
    /\ pc = "emit"
    /\ lazy' = IF no_cut_needed(Len(min_tour), count)
               THEN lazy
               ELSE Append(lazy, cut(count, min_tour))
    /\ pc' = "done"
    /\ UNCHANGED <<count, x, where, sols, queries, seen, tours, ret, calls, loop_iters, min_tour, loadVars, mainVars>>

Next ==
    \/ callback_mipsol
    \/ callback_other
    \/ find_sub_tour_loop
    \/ lazy_constraint_subtour_elimination

Spec == Init /\ [][Next]_vars

(***************************************************************************)
(* A decomposition pass driven directly: a sub_tours object over an        *)
(* arbitrary matrix (any diagonal, not necessarily symmetric), on which    *)
(* next_tour() is called again and again.                                  *)
(***************************************************************************)
PassCounts == 1 .. (IF MaxN > MaxHalfN THEN MaxN ELSE MaxHalfN)

Matrices(c, Vals) == [Idx(c) -> [Idx(c) -> Vals]]

PassMatrices ==
    [c \in PassCounts |->
        (IF c <= MaxN THEN Matrices(c, {0, Den}) ELSE {})
        \cup (IF c <= MaxHalfN THEN Matrices(c, 0 .. Den) ELSE {})]

InitPass ==
    /\ count \in PassCounts
    /\ sols \in PassMatrices[count]
    /\ x = <<>>
    /\ where = "MESSAGE"
    /\ queries = <<>>
    /\ seen = sub_tours(count)
    /\ tours = <<>>
    /\ ret = None
    /\ calls = 0
    /\ loop_iters = 0
    /\ next_id_count = 1
    /\ loaded = <<>>
    /\ thrown = None
    /\ exit_status = None
    /\ min_tour = <<>>
    /\ lazy = <<>>
    /\ pc = "pass"

\* one call of next_tour()
pass_next_tour ==
    /\ pc = "pass"
    /\ calls < count + MaxExtraCalls
    /\ LET r == next_tour(seen, sols, count)
       IN  /\ seen' = r.seen
           /\ ret' = r.walk
           /\ loop_iters' = r.iters
           /\ tours' = IF r.walk # None THEN Append(tours, ValueOf(r.walk)) ELSE tours
    /\ calls' = calls + 1
    /\ UNCHANGED <<count, x, where, sols, queries, min_tour, lazy, loadVars, mainVars, pc>>

NextPass == pass_next_tour

SpecPass == InitPass /\ [][NextPass]_vars

(***************************************************************************)
(* Instance loading (src/modelo/vertex.hpp): vertices are made by the      *)
(* public constructor, which draws the id from vertex::next_id, or by      *)
(* vertex::read, one per line of the coordinate file.  Coordinates play no *)
(* part in identity and are left out; made_by records which of the two     *)
(* made the vertex.                                                        *)
(***************************************************************************)
\* vertex::next_id: return count++
next_id(cnt) == [id |-> cnt, count |-> cnt + 1]

\* vertex(): the default constructor delegates with id 0U
vertex_default == [ident |-> 0, made_by |-> "read"]

\* operator>>: reads x1, y1, x2, y2 into the vertex; ident is not touched
extract(v) == v

\* operator==
vertex_eq(a, b) == a.ident = b.ident

InitLoad ==
    /\ count = 0
    /\ x = <<>>
    /\ where = "MESSAGE"
    /\ sols = <<>>
    /\ queries = <<>>
    /\ seen = <<>>
    /\ tours = <<>>
    /\ ret = None
    /\ calls = 0
    /\ loop_iters = 0
    /\ next_id_count = 1
    /\ loaded = <<>>
    /\ thrown = None
    /\ exit_status = None
    /\ min_tour = <<>>
    /\ lazy = <<>>
    /\ pc = "load"

callVars == <<count, x, where, sols, queries, seen, tours, ret, calls, loop_iters, min_tour, lazy>>

\* vertex(x1, y1, x2, y2): the id comes from next_id()
vertex_create ==
    /\ pc = "load"
    /\ Len(loaded) < MaxLoaded
    /\ LET r == next_id(next_id_count)
       IN  /\ loaded' = Append(loaded, [ident |-> r.id, made_by |-> "constructor"])
           /\ next_id_count' = r.count
    /\ UNCHANGED <<callVars, mainVars, pc>>

\* vertex::read, one line that parses: a default-constructed vertex is
\* filled by operator>> and copied into the vector
read_line ==
    /\ pc = "load"
    /\ Len(loaded) < MaxLoaded
    /\ loaded' = Append(loaded, extract(vertex_default))
    /\ UNCHANGED <<callVars, next_id_count, mainVars, pc>>

\* vertex::read, one line that does not parse: invalid_file is thrown
read_invalid_line ==
    /\ pc = "load"
    /\ pc' = "error"
    /\ UNCHANGED <<callVars, loadVars, mainVars>>

\* vertex::read at the end of the file: an empty vector is an error
read_end ==
    /\ pc = "load"
    /\ pc' = IF Cardinality({i \in DOMAIN loaded : loaded[i].made_by = "read"}) <= 0
             THEN "error" ELSE "loaded"
    /\ UNCHANGED <<callVars, loadVars, mainVars>>

NextLoad ==
    \/ vertex_create
    \/ read_line
    \/ read_invalid_line
    \/ read_end

SpecLoad == InitLoad /\ [][NextLoad]_vars

(***************************************************************************)
(* The fixed-size-array revision (src/codigo).  It differs from the        *)
(* revision above in all_vertices(): the vector is created empty,          *)
(* reserve(count) changes its capacity only, and vec[i] = i writes past    *)
(* its size.  The behaviour is undefined; a build either keeps the writes  *)
(* in the reserved storage, and the vector returned has size 0, or it      *)
(* checks operator[] and aborts the process.                               *)
(***************************************************************************)
\* all_vertices() of src/codigo when the writes land in reserved storage
codigo_all_vertices(c) == <<>>

\* the outcomes of all_vertices(): the vector returned, or an abort
codigo_all_vertices_outcomes(c) ==
    IF c = 0 THEN {Some(<<>>)} ELSE {Some(codigo_all_vertices(c)), None}

\* MIPSOL in src/codigo: get_solutions(), then find_sub_tour starts with
\* min_tour = all_vertices()
codigo_callback_mipsol ==
    /\ pc \in {"idle", "done"}
    /\ Some(codigo_all_vertices(count)) \in codigo_all_vertices_outcomes(count)
    /\ x' \in NextCandidates(count, x)
    /\ where' \in {w \in Wheres : is_mipsol(w)}
    /\ lazy' = <<>>
    /\ LET st == get_solutions(x', count)
       IN  /\ sols' = st.sols
           /\ queries' = st.queries
    /\ seen' = [i \in Idx(count) |-> FALSE]
    /\ min_tour' = codigo_all_vertices(count)
    /\ tours' = <<>>
    /\ ret' = None
    /\ pc' = "find_sub_tour"
    /\ UNCHANGED <<count, calls, loop_iters, loadVars, mainVars>>

\* MIPSOL in src/codigo in a build that checks operator[]: the process
\* aborts inside all_vertices()
codigo_callback_abort ==
    /\ pc \in {"idle", "done"}
    /\ None \in codigo_all_vertices_outcomes(count)
    /\ x' \in NextCandidates(count, x)
    /\ where' \in {w \in Wheres : is_mipsol(w)}
    /\ lazy' = <<>>
    /\ LET st == get_solutions(x', count)
       IN  /\ sols' = st.sols
           /\ queries' = st.queries
    /\ seen' = [i \in Idx(count) |-> FALSE]
    /\ min_tour' = <<>>
    /\ tours' = <<>>
    /\ ret' = None
    /\ pc' = "abort"
    /\ UNCHANGED <<count, calls, loop_iters, loadVars, mainVars>>

NextCodigo ==
    \/ codigo_callback_mipsol
    \/ codigo_callback_abort
    \/ callback_other
    \/ find_sub_tour_loop
    \/ lazy_constraint_subtour_elimination

SpecCodigo == Init /\ [][NextCodigo]_vars

(***************************************************************************)
(* main (src/modelo/main.cpp): program.run() builds the graph and solves   *)
(* it, the callback running on the solver's events; run() either returns   *)
(* or ends with an exception, which main catches.                          *)
(***************************************************************************)
EXIT_SUCCESS == "EXIT_SUCCESS"
EXIT_FAILURE == "EXIT_FAILURE"

\* the exceptions main has a handler for, in the order of the handlers
Exceptions == {"utils::invalid_solution", "std::exception", "GRBException", "unknown"}

\* what the handler of exception e returns, None when it has no return
catch_clause(e) ==
    IF e = "utils::invalid_solution" THEN None
    ELSE IF e = "std::exception" THEN Some(EXIT_FAILURE)
    ELSE IF e = "GRBException" THEN Some(EXIT_FAILURE)
    ELSE Some(EXIT_FAILURE)

\* the value main returns: the handler's, or that of the last statement
main_status(exc) ==
    IF exc # None /\ catch_clause(ValueOf(exc)) # None
    THEN ValueOf(catch_clause(ValueOf(exc)))
    ELSE EXIT_SUCCESS

\* run() completes: main leaves the try block and returns
main_returns ==
    /\ pc \in {"idle", "done"}
    /\ thrown' = None
    /\ exit_status' = Some(main_status(thrown'))
    /\ pc' = "exit"
    /\ UNCHANGED <<callVars, loadVars>>

\* run() ends with an exception: the first matching handler of main runs
main_catch ==
    /\ pc \in {"idle", "done"}
    /\ \E e \in Exceptions : thrown' = Some(e)
    /\ exit_status' = Some(main_status(thrown'))
    /\ pc' = "exit"
    /\ UNCHANGED <<callVars, loadVars>>

NextMain ==
    \/ callback_mipsol
    \/ callback_other
    \/ find_sub_tour_loop
    \/ lazy_constraint_subtour_elimination
    \/ main_returns
    \/ main_catch

SpecMain == Init /\ [][NextMain]_vars

(***************************************************************************)
(* Properties                                                              *)
(***************************************************************************)
\* a MIPSOL invocation of callback() has returned
Returned == pc = "done" /\ where = GRB_CB_MIPSOL

\* find_sub_tour has returned in the current MIPSOL invocation
Found == pc \in {"emit", "done"} /\ where = GRB_CB_MIPSOL

\* the direct pass has consumed every vertex: next_tour() returned none
PassEnded == pc = "pass" /\ calls > 0 /\ ret = None

Range(s) == {s[i] : i \in 1 .. Len(s)}

RECURSIVE SumLens(_)
SumLens(ts) == IF ts = <<>> THEN 0 ELSE Len(Head(ts)) + SumLens(Tail(ts))

\* the value of a linear expression (terms of coefficient 1) under ys, times Den
RECURSIVE ExprValue(_, _)
ExprValue(expr, ys) ==
    IF expr = <<>> THEN 0 ELSE ys[Head(expr)] + ExprValue(Tail(expr), ys)

\* the assignment ys satisfies the constraint con
Satisfies(con, ys) ==
    /\ con.sense = GRB_EQUAL
    /\ ExprValue(con.expr, ys) = con.rhs * Den

(***************************************************************************)
(* The solve loop of graph::solve: the model holds the degree-2            *)
(* constraints, the solver presents assignments that satisfy them and      *)
(* every lazy constraint submitted so far, and callback() runs on each.    *)
(***************************************************************************)
\* the assignment ys satisfies every constraint of the sequence cs
Feasible(cs, ys) == \A i \in DOMAIN cs : Satisfies(cs[i], ys)

\* the cycle covers the search can reach next that the solver still allows
FeasibleMoves(c, cs, xs) == {ys \in Deg2Moves[c][xs] : Feasible(cs, ys)}

InitSolve ==
    /\ count \in DOMAIN Deg2Candidates
    /\ x \in Deg2Candidates[count]
    /\ where = "MESSAGE"
    /\ sols = [u \in Idx(count) |-> [v \in Idx(count) |-> Uninit]]
    /\ queries = <<>>
    /\ seen = [i \in Idx(count) |-> FALSE]
    /\ tours = <<>>
    /\ ret = None
    /\ calls = 0
    /\ loop_iters = 0
    /\ next_id_count = 1
    /\ loaded = <<>>
    /\ thrown = None
    /\ exit_status = None
    /\ min_tour = <<>>
    /\ lazy = <<>>
    /\ pc = "idle"

\* the solver presents a feasible assignment at MIPSOL and callback() starts
\* the elimination on it; the lazy constraints it holds stay
solve_mipsol ==
    /\ pc \in {"idle", "done"}
    /\ x' \in FeasibleMoves(count, lazy, x)
    /\ where' \in {w \in Wheres : is_mipsol(w)}
    /\ LET st == get_solutions(x', count)
       IN  /\ sols' = st.sols
           /\ queries' = st.queries
    /\ seen' = sub_tours(count)
    /\ min_tour' = all_vertices(count)
    /\ tours' = <<>>
    /\ ret' = None
    /\ pc' = "find_sub_tour"
    /\ UNCHANGED <<count, calls, loop_iters, lazy, loadVars, mainVars>>

NextSolve ==
    \/ solve_mipsol
    \/ find_sub_tour_loop
    \/ lazy_constraint_subtour_elimination

SpecSolve == InitSolve /\ [][NextSolve]_vars

\* the assignment xs is a cycle cover of two or more cycles
MultiCycle(c, xs) ==
    /\ c \in DOMAIN Deg2Candidates
    /\ xs \in Deg2Candidates[c] \ HamiltonianCycles[c]

(***************************************************************************)
(* C11: for n >= 3 and a 0/1 candidate that satisfies the degree-2         *)
(* constraints and consists of k > 1 disjoint cycles, the constraint the   *)
(* callback submits is violated by that candidate, so the solver cannot    *)
(* present it again.                                                       *)
(***************************************************************************)
C11_CutExcludesCandidate ==
    (pc = "done" /\ MultiCycle(count, x)) =>
        /\ lazy # <<>>
        /\ ~Satisfies(lazy[Len(lazy)], x)
        /\ x \notin FeasibleMoves(count, lazy, x)

C11_Witness == pc = "done" /\ MultiCycle(count, x) /\ Len(lazy) = 1 /\ Len(min_tour) = 3

(***************************************************************************)
(* C15: on candidates that satisfy the degree-2 constraints, an invocation *)
(* returns without submitting a cut only if the selected edges form one    *)
(* cycle through all n vertices; a candidate of two or more cycles is      *)
(* never accepted.                                                         *)
(***************************************************************************)
C15_OnlyFullToursAccepted ==
    [][(/\ pc = "emit" /\ pc' = "done" /\ lazy' = lazy
        /\ count \in DOMAIN Deg2Candidates /\ x \in Deg2Candidates[count]) =>
           (x \in HamiltonianCycles[count] /\ ~MultiCycle(count, x))]_vars

C15_Witness ==
    pc = "done" /\ count >= 6 /\ lazy = <<>> /\ x \in HamiltonianCycles[count] /\ Len(tours) = 1

(***************************************************************************)
(* C16: the solve loop never reaches a state in which the cuts added leave *)
(* no Hamiltonian tour feasible (so that a tour can still be accepted).    *)
(***************************************************************************)
C16_SomeTourStaysFeasible ==
    \E h \in HamiltonianCycles[count] : Feasible(lazy, h)

(***************************************************************************)
(* C12: an invocation of callback() submits at most one lazy constraint,   *)
(* and when the event is not MIPSOL it submits none and queries no         *)
(* variable value.                                                         *)
(***************************************************************************)
C12_OneCutOnlyAtMipsol ==
    /\ Len(lazy) <= 1
    /\ where # GRB_CB_MIPSOL => lazy = <<>> /\ queries = <<>>

C12_Witness ==
    pc = "done" /\ where # GRB_CB_MIPSOL /\ Len(tours) >= 2 /\ lazy = <<>> /\ queries = <<>>

(***************************************************************************)
(* C13: every vertex created while the instance is loaded, each vertex of  *)
(* vertex::read included, has an id drawn from the counter (1, 2, ...),    *)
(* so two distinct loaded vertices have different ids and compare unequal. *)
(***************************************************************************)
C13_LoadedIdsDistinct ==
    /\ \A i \in DOMAIN loaded : loaded[i].ident >= 1 /\ loaded[i].ident < next_id_count
    /\ \A i, j \in DOMAIN loaded : i # j => ~vertex_eq(loaded[i], loaded[j])

(***************************************************************************)
(* C14: graph::size() is the number of edges of the model, the number of   *)
(* distinct edge variables add_vars creates (one per pair u < v).          *)
(***************************************************************************)
C14_SizeIsNumberOfEdges ==
    graph_size(count) = Cardinality({add_vars(count)[e[1]][e[2]] : e \in Edges(count)})

(***************************************************************************)
(* C17: on every n x n matrix, malformed ones included, one walk           *)
(* extraction makes at most n iterations and returns a walk of length      *)
(* 1..n, and a pass returns at most n walks: the call after the n-th, at   *)
(* the latest, returns none.                                               *)
(***************************************************************************)
C17_PassTerminatesWithinN ==
    pc = "pass" =>
        /\ loop_iters <= count
        /\ (ret # None => Len(ValueOf(ret)) \in 1 .. count)
        /\ \A i \in DOMAIN tours : Len(tours[i]) \in 1 .. count
        /\ Len(tours) <= count
        /\ (calls > count => ret = None)

C17_Witness ==
    /\ pc = "pass"
    /\ count = 3
    /\ ret # None
    /\ loop_iters = count
    /\ Len(ValueOf(ret)) = count
    /\ \E u, v \in Idx(count) : sols[u][v] # sols[v][u]
    /\ \E u \in Idx(count) : sols[u][u] * 2 > Den
    /\ \E u \in Idx(count) : \A v \in Idx(count) : sols[u][v] * 2 > Den

\* the lowest index that is not marked in sn
LowestUnmarked(sn, c) == MinOf({i \in Idx(c) : ~sn[i]})

(***************************************************************************)
(* C18: in a pass, a call of next_tour() returns none exactly when every   *)
(* vertex is marked; otherwise its walk starts at the lowest unmarked      *)
(* vertex and the call marks at least one vertex that was unmarked; no     *)
(* call unmarks a vertex; after a call returned none, every later call     *)
(* returns none.                                                           *)
(***************************************************************************)
C18_NextTourStep ==
    [][(pc = "pass" /\ calls' = calls + 1) =>
           /\ (ret' = None <=> \A i \in Idx(count) : seen[i])
           /\ (ret' # None => Head(ValueOf(ret')) = LowestUnmarked(seen, count))
           /\ (ret' # None => \E i \in Idx(count) : ~seen[i] /\ seen'[i])
           /\ \A i \in Idx(count) : seen[i] => seen'[i]
           /\ ((calls > 0 /\ ret = None) => ret' = None)]_vars

C18_Witness ==
    /\ PassEnded
    /\ count = 3
    /\ Len(tours) = 2
    /\ Head(tours[2]) > 1
    /\ calls >= Len(tours) + 2

\* the unmarked vertices v with solution[u][v] > 0.5
UnmarkedNeighbours(u) == {v \in Idx(count) : sols[u][v] * 2 > Den /\ ~seen[v]}

(***************************************************************************)
(* C19: best_next(u) is the lowest unmarked v with solution[u][v] > 0.5,   *)
(* or none when there is no such v; a value of exactly 0.5 counts as       *)
(* absent, and a marked u is not returned even if solution[u][u] > 0.5.    *)
(***************************************************************************)
C19_BestNextIsLowestUnmarked ==
    pc = "pass" =>
        \A u \in Idx(count) :
            LET r == best_next(seen, sols, count, u)
            IN  /\ r = (IF UnmarkedNeighbours(u) = {} THEN None
                        ELSE Some(MinOf(UnmarkedNeighbours(u))))
                /\ \A v \in Idx(count) : sols[u][v] * 2 = Den => r # Some(v)
                /\ (seen[u] => r # Some(u))

C19_Witness ==
    /\ pc = "pass"
    /\ count = 2
    /\ seen[0] /\ ~seen[1]
    /\ sols[0][0] = Den
    /\ sols[0][1] * 2 = Den
    /\ best_next(seen, sols, count, 0) = None
    /\ sols[1][0] = Den
    /\ best_next(seen, sols, count, 1) = None

(***************************************************************************)
(* C20: in src/codigo find_sub_tour starts from the full index list, so    *)
(* the walk it returns has length 1..n, and for an assignment that is one  *)
(* Hamiltonian cycle the callback submits no cut.                          *)
(***************************************************************************)
C20_CodigoFullListStart ==
    /\ (Found => Len(min_tour) \in 1 .. count)
    /\ ((Returned /\ count \in DOMAIN HamiltonianCycles /\ x \in HamiltonianCycles[count])
            => lazy = <<>>)

\* get_solutions() has returned in the current MIPSOL invocation
Queried == pc \in {"find_sub_tour", "emit", "done"} /\ where = GRB_CB_MIPSOL

(***************************************************************************)
(* C21: the matrix get_solutions returns is symmetric with a zero          *)
(* diagonal, every entry holds a value written by get_solutions (the       *)
(* solver's value of the pair off the diagonal) when the decomposition     *)
(* reads it, and getSolution was called exactly once per pair u < v, on    *)
(* vars[u][v].                                                             *)
(***************************************************************************)
C21_SolutionsSymmetricOneQueryPerPair ==
    Queried =>
        /\ \A u, v \in Idx(count) : sols[u][v] = sols[v][u]
        /\ \A u \in Idx(count) : sols[u][u] = 0
        /\ \A e \in Edges(count) : sols[e[1]][e[2]] = x[e]
        /\ Len(queries) = Cardinality(Edges(count))
        /\ \A e \in Edges(count) :
               Cardinality({i \in DOMAIN queries : queries[i] = add_vars(count)[e[1]][e[2]]}) = 1

C21_Witness ==
    /\ pc = "find_sub_tour"
    /\ where = GRB_CB_MIPSOL
    /\ tours = <<>>
    /\ count = 4
    /\ Len(queries) = 6
    /\ \E e, f \in Edges(count) : sols[e[1]][e[2]] = Den /\ sols[f[2]][f[1]] = 0

\* the variable var is the variable of two distinct vertices of the graph
OffDiagonal(var) == var # NullVar /\ var \in Edges(count)

(***************************************************************************)
(* C22: no diagonal variable vars[i][i] is ever used: every value query    *)
(* of get_solutions, every term of a submitted cut and every term of a     *)
(* degree-2 constraint is the variable of two distinct vertices, whatever  *)
(* the assignment.                                                         *)
(***************************************************************************)
C22_NoDiagonalVariableUsed ==
    /\ \A i \in DOMAIN queries : OffDiagonal(queries[i])
    /\ \A k \in DOMAIN lazy : \A i \in DOMAIN lazy[k].expr : OffDiagonal(lazy[k].expr[i])
    /\ \A u \in Idx(count) :
           /\ Len(add_constraint_deg_2(count)[u].expr) = count - 1
           /\ \A i \in DOMAIN add_constraint_deg_2(count)[u].expr :
                  /\ OffDiagonal(add_constraint_deg_2(count)[u].expr[i])
                  /\ u \in {add_constraint_deg_2(count)[u].expr[i][1],
                             add_constraint_deg_2(count)[u].expr[i][2]}

C22_Witness ==
    /\ Returned
    /\ count = 4
    /\ x \notin Deg2Candidates[count]
    /\ Len(queries) = 6
    /\ lazy # <<>>
    /\ Len(min_tour) = 2
    /\ Len(lazy[1].expr) = 1

(***************************************************************************)
(* C23: main returns EXIT_FAILURE whenever run() ended with an exception   *)
(* (utils::invalid_solution, std::exception, GRBException or any other),   *)
(* and EXIT_SUCCESS only when run() completed without throwing.            *)
(***************************************************************************)
C23_ExceptionMeansFailure ==
    pc = "exit" =>
        /\ (thrown # None => exit_status = Some(EXIT_FAILURE))
        /\ (exit_status = Some(EXIT_SUCCESS) => thrown = None)

\* the symmetric matrix with zero diagonal that holds the assignment xs
MatrixOf(c, xs) ==
    [u \in Idx(c) |-> [v \in Idx(c) |-> IF u = v THEN 0 ELSE xs[EdgeVar(u, v)]]]

\* the lengths of the walks of the pass, and the positions of the shortest ones
WalkLens == {Len(tours[i]) : i \in DOMAIN tours}
ShortestAt == {i \in DOMAIN tours : \A j \in DOMAIN tours : Len(tours[i]) <= Len(tours[j])}

\* the edge (u, v) is present in the matrix of the pass
Present(u, v) == sols[u][v] * 2 > Den
\* no edge between u and another vertex is present
Isolated(u) == \A v \in Idx(count) \ {u} : ~Present(u, v) /\ ~Present(v, u)

(***************************************************************************)
(* C1: for n >= 3, whenever the callback submits a cut, every Hamiltonian  *)
(* cycle on the n vertices satisfies the submitted constraint (the cut     *)
(* never forbids a full tour).                                             *)
(***************************************************************************)
C1_CutKeepsEveryTour ==
    (Returned /\ count >= 3 /\ count \in DOMAIN HamiltonianCycles) =>
        \A i \in DOMAIN lazy : \A h \in HamiltonianCycles[count] : Satisfies(lazy[i], h)

(***************************************************************************)
(* C2: whenever the minimum sub-tour has length L < n, the constraint      *)
(* passed to addLazy has relation EQUAL and right-hand side L - 1.         *)
(***************************************************************************)
C2_CutBoundIsLenMinusOne ==
    (Returned /\ Len(min_tour) < count) =>
        /\ Len(lazy) = 1
        /\ lazy[1].sense = GRB_EQUAL
        /\ lazy[1].rhs = Len(min_tour) - 1

(***************************************************************************)
(* C3: a submitted cut has exactly one term for each pair of positions     *)
(* i < j of the minimum sub-tour, the variable vars[tour[i]][tour[j]]:     *)
(* L(L-1)/2 terms, none with an endpoint outside the sub-tour.             *)
(***************************************************************************)
C3_CutTermsArePairs ==
    (Returned /\ lazy # <<>>) =>
        LET expr == lazy[1].expr
            L == Len(min_tour)
        IN  /\ Len(min_tour) < count
            /\ Len(lazy) = 1
            /\ 2 * Len(expr) = L * (L - 1)
            /\ \A i \in 1 .. L : \A j \in (i + 1) .. L :
                   Cardinality({k \in DOMAIN expr :
                       expr[k] = add_vars(count)[min_tour[i]][min_tour[j]]}) = 1
            /\ \A k \in DOMAIN expr :
                   /\ expr[k] \in Edges(count)
                   /\ expr[k][1] \in Range(min_tour)
                   /\ expr[k][2] \in Range(min_tour)

C3_Witness == Returned /\ lazy # <<>> /\ Len(min_tour) = 3 /\ Len(lazy[1].expr) = 3

(***************************************************************************)
(* C4: for n >= 3 and an assignment that is exactly one Hamiltonian cycle, *)
(* find_sub_tour returns a walk of length n and the callback submits no    *)
(* cut.                                                                    *)
(***************************************************************************)
C4_FullTourNoCut ==
    (count >= 3 /\ count \in DOMAIN HamiltonianCycles /\ x \in HamiltonianCycles[count]) =>
        /\ Found => Len(tours) = 1 /\ Len(min_tour) = count /\ Range(min_tour) = Idx(count)
        /\ where = GRB_CB_MIPSOL => lazy = <<>>

C4_Witness == Returned /\ count >= 5 /\ x \in HamiltonianCycles[count] /\ lazy = <<>>

(***************************************************************************)
(* C5: for an assignment made of k > 1 vertex-disjoint cycles that cover   *)
(* the n vertices, the pass yields exactly k walks, each the vertex set of *)
(* one of the cycles; the lengths sum to n, the walks are pairwise         *)
(* disjoint and together cover [0, n).                                     *)
(***************************************************************************)
C5_CoverWalksAreCycles ==
    (Found /\ count \in DOMAIN CycleCovers) =>
        \A cv \in CycleCovers[count] :
            (Cardinality(cv) > 1 /\ x = Assignment(count, CoverEdges(cv))) =>
                /\ Len(tours) = Cardinality(cv)
                /\ {Range(tours[i]) : i \in DOMAIN tours} = {cyc.verts : cyc \in cv}
                /\ \A i \in DOMAIN tours : Cardinality(Range(tours[i])) = Len(tours[i])
                /\ SumLens(tours) = count
                /\ \A i, j \in DOMAIN tours : i # j => Range(tours[i]) \cap Range(tours[j]) = {}
                /\ UNION {Range(tours[i]) : i \in DOMAIN tours} = Idx(count)

C5_Witness ==
    /\ Found
    /\ count \in DOMAIN CycleCovers
    /\ \E cv \in CycleCovers[count] :
           Cardinality(cv) > 1 /\ x = Assignment(count, CoverEdges(cv))
    /\ Len(tours) = 2

(***************************************************************************)
(* C6: the walk find_sub_tour returns has the minimum length among the     *)
(* walks of the decomposition pass.                                        *)
(***************************************************************************)
C6_MinTourIsShortest ==
    Found =>
        /\ tours # <<>>
        /\ \A i \in DOMAIN tours : Len(min_tour) <= Len(tours[i])
        /\ \E i \in DOMAIN tours : Len(min_tour) = Len(tours[i])

C6_Witness ==
    /\ Found
    /\ \E i, j \in DOMAIN tours : i < j /\ Len(tours[i]) < Len(tours[j])
    /\ Len(min_tour) < Len(tours[Len(tours)])

(***************************************************************************)
(* C7 (as stated): when several walks share the minimum length,            *)
(* find_sub_tour returns the first one found, the one whose starting       *)
(* vertex has the smallest index.                                          *)
(***************************************************************************)
C7_TieFirstFound ==
    (Found /\ Cardinality(ShortestAt) > 1) =>
        /\ min_tour = tours[MinOf(ShortestAt)]
        /\ \A i \in ShortestAt : min_tour[1] <= tours[i][1]

(***************************************************************************)
(* C7 (amended): when several walks share the minimum length,              *)
(* find_sub_tour returns the last one found, the one whose starting vertex *)
(* has the largest index; for a matrix without edges it returns [n - 1].   *)
(***************************************************************************)
C7_TieLastFound ==
    (Found /\ Cardinality(ShortestAt) > 1) =>
        /\ min_tour = tours[MaxOf(ShortestAt)]
        /\ \A i \in ShortestAt : tours[i][1] <= min_tour[1]
        /\ (\A e \in Edges(count) : x[e] = 0) => min_tour = <<count - 1>>

C7_Witness ==
    /\ Found
    /\ count = 4
    /\ \A e \in Edges(count) : x[e] = 0
    /\ Cardinality(ShortestAt) = 4
    /\ min_tour = <<3>>

(***************************************************************************)
(* C8: for every n x n matrix, the walks of a pass each hold pairwise      *)
(* distinct indices, are pairwise vertex-disjoint, and once the pass has   *)
(* ended their indices are exactly [0, n).                                 *)
(***************************************************************************)
C8_WalksPartitionVertices ==
    pc = "pass" =>
        /\ \A i \in DOMAIN tours : Cardinality(Range(tours[i])) = Len(tours[i])
        /\ \A i, j \in DOMAIN tours : i # j => Range(tours[i]) \cap Range(tours[j]) = {}
        /\ PassEnded => UNION {Range(tours[i]) : i \in DOMAIN tours} = Idx(count)

C8_Witness ==
    /\ PassEnded
    /\ count = 3
    /\ \E u, v \in Idx(count) : sols[u][v] # sols[v][u]
    /\ \E u \in Idx(count) : Present(u, u)
    /\ Len(tours) = 2

(***************************************************************************)
(* C9: a pass depends on nothing but its matrix: in every invocation the   *)
(* ordered list of walks is the list a pass with fresh markers produces on *)
(* the matrix of the assignment read in that invocation, and the cut (or   *)
(* its absence) is the one that list determines.                           *)
(***************************************************************************)
RECURSIVE FreshPass(_, _, _, _)
FreshPass(sn, sol, c, acc) ==
    LET r == next_tour(sn, sol, c)
    IN  IF r.walk = None THEN acc
        ELSE FreshPass(r.seen, sol, c, Append(acc, ValueOf(r.walk)))

FreshWalks(c, xs) == FreshPass([i \in Idx(c) |-> FALSE], MatrixOf(c, xs), c, <<>>)

FreshShortest(c, xs) ==
    LET ws == FreshWalks(c, xs)
        last == CHOOSE m \in DOMAIN ws :
                    /\ \A j \in DOMAIN ws : Len(ws[m]) <= Len(ws[j])
                    /\ \A j \in DOMAIN ws : Len(ws[j]) = Len(ws[m]) => j <= m
    IN  ws[last]

C9_DependsOnlyOnAssignment ==
    /\ Found => tours = FreshWalks(count, x) /\ min_tour = FreshShortest(count, x)
    /\ Returned =>
           lazy = IF Len(FreshShortest(count, x)) >= count THEN <<>>
                  ELSE <<cut(count, FreshShortest(count, x))>>

\* an invocation has decomposed its assignment into several walks and
\* submitted a cut
C9_Witness == Returned /\ lazy # <<>> /\ Len(tours) >= 2

(***************************************************************************)
(* C10: a vertex with no present incident edge is returned as the walk     *)
(* holding only itself; for a matrix with no edge between distinct         *)
(* vertices the pass yields the n walks [0], [1], ..., [n-1] in this       *)
(* order.                                                                  *)
(***************************************************************************)
C10_IsolatedVertexIsOwnWalk ==
    PassEnded =>
        /\ \A u \in Idx(count) : Isolated(u) => \E i \in DOMAIN tours : tours[i] = <<u>>
        /\ (\A u \in Idx(count) : Isolated(u)) => tours = [i \in 1 .. count |-> <<i - 1>>]

C10_Witness ==
    /\ PassEnded
    /\ count >= 2
    /\ \A u \in Idx(count) : Isolated(u)
    /\ \E u \in Idx(count) : sols[u][u] = Den
    /\ \E u, v \in Idx(count) : u # v /\ sols[u][v] = 1
    /\ Len(tours) = count

TypeOK ==
    /\ count \in Counts
    /\ x \in Candidates(count)
    /\ pc \in {"idle", "find_sub_tour", "emit", "done"}
    /\ Len(lazy) <= 1

====
